---- MODULE Spec2Model ----
(***************************************************************************)
(* Model of the two exercises of the repository:                           *)
(*   Ex3_Heredity/heredity.py        exact inference over a gene model     *)
(*   Ex2_tictactoe_minimax/tictactoe.py   tic-tac-toe with minimax         *)
(*                                                                         *)
(* Python floats are modelled by exact rationals (a numerator and a        *)
(* denominator, each an arbitrary-precision natural kept as a sequence of  *)
(* base-10000 digits, least significant first), so that every statement    *)
(* below is one about the arithmetic the code writes down, not about its   *)
(* rounding.                                                               *)
(***************************************************************************)
EXTENDS Integers, Sequences, FiniteSets, TLC

VARIABLES people, probabilities, pc, ti, oi, wi, hyp, p, processed, calls,
          printed, ncalls, before, board, res, move, scored

vars == <<people, probabilities, pc, ti, oi, wi, hyp, p, processed, calls,
          printed, ncalls, before, board, res, move, scored>>

\* processed, calls, ncalls and before record the calls made: the hypotheses
\* passed to update and their number, the number of calls of normalize, and
\* the distributions as the last call of update or normalize found them
hvars == <<people, probabilities, pc, ti, oi, wi, hyp, p, processed, calls, printed, before>>

\* scored records, for the board minimax was last asked about, the score
\* find_score gives each legal move
tvars == <<board, res, move, scored>>

(***************************************************************************)
(* Bounds of the model.                                                    *)
(***************************************************************************)
\* largest population main is run on
MaxPeople == 3
\* largest population normalize is applied to on its own
MaxNormPeople == 2
\* largest total mass of a distribution handed to normalize on its own
MaxTotal == 2
\* how many times in a row normalize is applied on its own
MaxNormalizeCalls == 2
\* result is tried with row and column indices in -MaxIndex .. MaxIndex
MaxIndex == 4

(***************************************************************************)
(* Arbitrary-precision naturals.                                           *)
(***************************************************************************)
\* the literals of PROBS are hundredths
Unit == 100

Base == Unit * Unit

Zero == << >>

RECURSIVE FromInt(_)
FromInt(k) == IF k = 0 THEN Zero ELSE <<k % Base>> \o FromInt(k \div Base)

RECURSIVE AddC(_, _, _)
AddC(a, b, c) ==
  IF a = << >> /\ b = << >>
    THEN (IF c = 0 THEN << >> ELSE <<c>>)
    ELSE LET x == IF a = << >> THEN 0 ELSE Head(a)
             y == IF b = << >> THEN 0 ELSE Head(b)
             s == x + y + c
             ta == IF a = << >> THEN a ELSE Tail(a)
             tb == IF b = << >> THEN b ELSE Tail(b)
         IN  <<s % Base>> \o AddC(ta, tb, s \div Base)

BigAdd(a, b) == IF a = Zero THEN b ELSE IF b = Zero THEN a ELSE AddC(a, b, 0)

RECURSIVE Strip(_)
Strip(a) == IF a # << >> /\ a[Len(a)] = 0 THEN Strip(SubSeq(a, 1, Len(a) - 1)) ELSE a

RECURSIVE SubB(_, _, _)
SubB(a, b, br) ==
  IF a = << >> THEN << >>
  ELSE LET y == IF b = << >> THEN 0 ELSE Head(b)
           tb == IF b = << >> THEN b ELSE Tail(b)
           d == Head(a) - y - br
       IN  IF d < 0 THEN <<d + Base>> \o SubB(Tail(a), tb, 1)
                    ELSE <<d>> \o SubB(Tail(a), tb, 0)

\* a - b for a >= b
BigSub(a, b) == Strip(SubB(a, b, 0))

RECURSIVE MulD(_, _, _)
MulD(a, k, c) ==
  IF a = << >> THEN (IF c = 0 THEN << >> ELSE <<c>>)
  ELSE LET s == Head(a) * k + c
       IN  <<s % Base>> \o MulD(Tail(a), k, s \div Base)

RECURSIVE BigMul(_, _)
BigMul(a, b) ==
  IF a = Zero \/ b = Zero THEN Zero
  ELSE IF Len(b) = 1 THEN MulD(a, b[1], 0)
  ELSE BigAdd(MulD(a, Head(b), 0), <<0>> \o BigMul(a, Tail(b)))

(***************************************************************************)
(* Exact rationals n/d, d > 0, not necessarily in lowest terms.            *)
(***************************************************************************)
Frac(a, b) == [n |-> FromInt(a), d |-> FromInt(b)]

RatZero == Frac(0, 1)

RatOne == Frac(1, 1)

RatEq(x, y) == BigMul(x.n, y.d) = BigMul(y.n, x.d)

RatIsZero(x) == x.n = Zero

RatAdd(x, y) ==
  IF x.n = Zero THEN y
  ELSE IF y.n = Zero THEN x
  ELSE IF x.d = y.d THEN [n |-> BigAdd(x.n, y.n), d |-> x.d]
  ELSE [n |-> BigAdd(BigMul(x.n, y.d), BigMul(y.n, x.d)), d |-> BigMul(x.d, y.d)]

\* 1 - x for 0 <= x <= 1
RatCompl(x) == [n |-> BigSub(x.d, x.n), d |-> x.d]

RatMul(x, y) == [n |-> BigMul(x.n, y.n), d |-> BigMul(x.d, y.d)]

\* x / y for y # 0
RatDiv(x, y) ==
  IF x.d = y.d THEN [n |-> x.n, d |-> y.n]
  ELSE [n |-> BigMul(x.n, y.d), d |-> BigMul(x.d, y.n)]

\* b * x for a Python bool b
BoolTimes(b, x) == IF b THEN x ELSE [n |-> Zero, d |-> x.d]

(***************************************************************************)
(* heredity.py: the model constants.                                       *)
(***************************************************************************)
PROBS ==
  [gene |-> (2 :> Frac(1, Unit) @@ 1 :> Frac(3, Unit) @@ 0 :> Frac(96, Unit)),
   trait |-> (2 :> (TRUE :> Frac(65, Unit) @@ FALSE :> Frac(35, Unit)) @@
              1 :> (TRUE :> Frac(56, Unit) @@ FALSE :> Frac(44, Unit)) @@
              0 :> (TRUE :> Frac(1, Unit) @@ FALSE :> Frac(99, Unit))),
   mutation |-> Frac(1, Unit)]

\* the literal 0.5 of joint_probability
Half == Frac(50, Unit)

(***************************************************************************)
(* heredity.py: the population load_data returns.  Persons are named       *)
(* 1 .. n in the order of their rows; a parent is a row above its child.   *)
(***************************************************************************)
\* a blank mother or father column
NoParent == 0

TraitValues == {"True", "False", "None"}

Founder == [mother : {NoParent}, father : {NoParent}, trait : TraitValues]

Child(i) ==
  {c \in [mother : 1 .. (i - 1), father : 1 .. (i - 1), trait : TraitValues] :
     c.mother # c.father}

Populations ==
  UNION {{pp \in [1 .. n -> UNION {Founder \cup Child(i) : i \in 1 .. n}] :
            \A i \in 1 .. n : pp[i] \in Founder \cup Child(i)} : n \in 0 .. MaxPeople}

\* the bool (person in have_trait) as load_data spells a known trait
Observed(b) == IF b THEN "True" ELSE "False"

(***************************************************************************)
(* heredity.py: powerset.                                                  *)
(***************************************************************************)
RECURSIVE SetToSeq(_)
SetToSeq(s) ==
  IF s = {} THEN << >>
  ELSE LET x == CHOOSE y \in s : \A z \in s : y <= z
       IN  <<x>> \o SetToSeq(s \ {x})

\* itertools.combinations(s, r): the r-element subsequences, in index order
RECURSIVE combinations(_, _)
combinations(s, r) ==
  IF r = 0 THEN << << >> >>
  ELSE IF Len(s) < r THEN << >>
  ELSE LET with == combinations(Tail(s), r - 1)
       IN  [k \in 1 .. Len(with) |-> <<Head(s)>> \o with[k]] \o combinations(Tail(s), r)

RECURSIVE chain(_, _, _)
chain(s, r, last) ==
  IF r > last THEN << >> ELSE combinations(s, r) \o chain(s, r + 1, last)

Range(q) == {q[k] : k \in 1 .. Len(q)}

\* range(len(s)) in place of range(len(s) + 1): the full set is never produced
powersetShort(s) ==
  LET l == SetToSeq(s)
      c == chain(l, 0, Len(l) - 1)
  IN  [k \in 1 .. Len(c) |-> Range(c[k])]

powerset(s) ==
  LET l == SetToSeq(s)
      c == chain(l, 0, Len(l))
  IN  [k \in 1 .. Len(c) |-> Range(c[k])]

(***************************************************************************)
(* heredity.py: joint_probability.                                         *)
(***************************************************************************)
keys(d) == SetToSeq(DOMAIN d)

Bool2Int(b) == IF b THEN 1 ELSE 0

n_genes_of(person, one_gene, two_genes) ==
  1 * Bool2Int(person \in one_gene) + 2 * Bool2Int(person \in two_genes)

\* the gene prior alone: the trait factor of a founder is forgotten
founder_factor_no_trait(n_genes, trait) == PROBS.gene[n_genes]

founder_factor(n_genes, trait) == RatMul(PROBS.gene[n_genes], PROBS.trait[n_genes][trait])

\* the coefficients of 0 and 2 genes exchanged
effect_swapped(n_genes) ==
  RatAdd(RatAdd(BoolTimes(n_genes = 2, PROBS.mutation), BoolTimes(n_genes = 1, Half)),
         BoolTimes(n_genes = 0, RatCompl(PROBS.mutation)))

\* mother_effect, father_effect
effect(n_genes) ==
  RatAdd(RatAdd(BoolTimes(n_genes = 0, PROBS.mutation), BoolTimes(n_genes = 1, Half)),
         BoolTimes(n_genes = 2, RatCompl(PROBS.mutation)))

child_factor(n_genes, mother_effect, father_effect) ==
  IF n_genes = 0
    THEN RatMul(RatCompl(mother_effect), RatCompl(father_effect))
  ELSE IF n_genes = 1
    THEN RatAdd(RatMul(RatCompl(mother_effect), father_effect),
                RatMul(mother_effect, RatCompl(father_effect)))
  ELSE RatMul(mother_effect, father_effect)

RECURSIVE parents_product(_, _, _, _, _)
parents_product(parents, one_gene, two_genes, have_trait, parents_joint) ==
  IF parents = << >> THEN parents_joint
  ELSE LET parent == Head(parents)
           n_genes == n_genes_of(parent, one_gene, two_genes)
           trait == parent \in have_trait
       IN  parents_product(Tail(parents), one_gene, two_genes, have_trait,
                           RatMul(parents_joint, founder_factor(n_genes, trait)))

RECURSIVE children_product(_, _, _, _, _, _)
children_product(ppl, children, one_gene, two_genes, have_trait, children_joint) ==
  IF children = << >> THEN children_joint
  ELSE LET child == Head(children)
           n_genes == n_genes_of(child, one_gene, two_genes)
           n_genes_mother == n_genes_of(ppl[child].mother, one_gene, two_genes)
           n_genes_father == n_genes_of(ppl[child].father, one_gene, two_genes)
           trait == child \in have_trait
           inherited == RatMul(children_joint,
                               child_factor(n_genes, effect(n_genes_mother), effect(n_genes_father)))
       IN  children_product(ppl, Tail(children), one_gene, two_genes, have_trait,
                            RatMul(inherited, PROBS.trait[n_genes][trait]))

joint_probability(ppl, one_gene, two_genes, have_trait) ==
  LET parents == SelectSeq(keys(ppl), LAMBDA human : ppl[human].mother = NoParent)
      children == SelectSeq(keys(ppl), LAMBDA human : ppl[human].mother # NoParent)
      parents_joint == parents_product(parents, one_gene, two_genes, have_trait, RatOne)
      children_joint == children_product(ppl, children, one_gene, two_genes, have_trait, RatOne)
  IN  RatMul(parents_joint, children_joint)

(***************************************************************************)
(* heredity.py: update.                                                    *)
(***************************************************************************)
\* 1 * (human in two_genes) in place of 2 * (human in two_genes)
update_one_for_two(probs, one_gene, two_genes, have_trait, q) ==
  [human \in DOMAIN probs |->
     LET n_genes == Bool2Int(human \in one_gene) + Bool2Int(human \in two_genes)
         trait == human \in have_trait
     IN  [gene |-> [probs[human].gene EXCEPT ![n_genes] = RatAdd(@, q)],
          trait |-> [probs[human].trait EXCEPT ![trait] = RatAdd(@, q)]]]

update(probs, one_gene, two_genes, have_trait, q) ==
  [human \in DOMAIN probs |->
     LET n_genes == n_genes_of(human, one_gene, two_genes)
         trait == human \in have_trait
     IN  [gene |-> [probs[human].gene EXCEPT ![n_genes] = RatAdd(@, q)],
          trait |-> [probs[human].trait EXCEPT ![trait] = RatAdd(@, q)]]]

(***************************************************************************)
(* heredity.py: normalize.  The dictionary is changed in place, one person *)
(* after the other, so a failure leaves the changes made before it.        *)
(***************************************************************************)
\* range(2) in place of range(3) in the summing loop
sum_genes_two(gene) == RatAdd(RatAdd(RatZero, gene[0]), gene[1])

sum_genes(gene) == RatAdd(RatAdd(RatAdd(RatZero, gene[0]), gene[1]), gene[2])

sum_trait(trait) == RatAdd(trait[TRUE], trait[FALSE])

\* a division that yields a value for a zero divisor too
never_raises(divisor) == FALSE

\* x /= divisor raises ZeroDivisionError
raises_ZeroDivisionError(divisor) == RatIsZero(divisor)

\* the sum is taken anew, over the buckets as they stand, before each division
divide_genes_running(gene, sum_genes_probs) ==
  LET g0 == RatDiv(gene[0], sum_genes_probs)
      g1 == RatDiv(gene[1], RatAdd(RatAdd(g0, gene[1]), gene[2]))
      g2 == RatDiv(gene[2], RatAdd(RatAdd(g0, g1), gene[2]))
  IN  (0 :> g0 @@ 1 :> g1 @@ 2 :> g2)

divide_genes(gene, sum_genes_probs) ==
  [i \in DOMAIN gene |-> RatDiv(gene[i], sum_genes_probs)]

divide_trait(trait, sum_trait_probs) ==
  [t \in DOMAIN trait |-> RatDiv(trait[t], sum_trait_probs)]

RECURSIVE normalize_from(_, _)
normalize_from(probs, humans) ==
  IF humans = << >> THEN [ok |-> TRUE, probs |-> probs]
  ELSE LET human == Head(humans)
           sum_genes_probs == sum_genes(probs[human].gene)
       IN  IF raises_ZeroDivisionError(sum_genes_probs)
             THEN [ok |-> FALSE, probs |-> probs]
           ELSE LET p1 == [probs EXCEPT ![human].gene = divide_genes(@, sum_genes_probs)]
                    sum_trait_probs == sum_trait(p1[human].trait)
                IN  IF raises_ZeroDivisionError(sum_trait_probs)
                      THEN [ok |-> FALSE, probs |-> p1]
                    ELSE normalize_from(
                           [p1 EXCEPT ![human].trait = divide_trait(@, sum_trait_probs)],
                           Tail(humans))

normalize(probs) == normalize_from(probs, keys(probs))

(***************************************************************************)
(* heredity.py: main.                                                      *)
(***************************************************************************)
\* only a known negative is held against a candidate
fails_evidence_negative_only(ppl, names, have_trait) ==
  \E person \in names : ppl[person].trait = "False" /\ person \in have_trait

fails_evidence(ppl, names, have_trait) ==
  \E person \in names :
     /\ ppl[person].trait # "None"
     /\ ppl[person].trait # Observed(person \in have_trait)

zero_distributions(ppl) ==
  [person \in DOMAIN ppl |->
     [gene |-> (2 :> RatZero @@ 1 :> RatZero @@ 0 :> RatZero),
      trait |-> (TRUE :> RatZero @@ FALSE :> RatZero)]]

NoHypothesis == [one_gene |-> {}, two_genes |-> {}, have_trait |-> {}]

Idle == /\ ncalls = 0 /\ before = << >> /\ board = << >> /\ res = [kind |-> "none"] /\ move = << >>
        /\ scored = << >>

\* names - one_gene, the set the innermost loop takes the subsets of
remaining(all, one_gene) == all \ one_gene

\* the first pass of the two inner loops at or after (o, w): the pair of
\* list positions of one_gene and two_genes, o beyond the list when none is left
RECURSIVE settle(_, _, _)
settle(all, o, w) ==
  IF o > Len(powerset(all)) THEN <<o, 1>>
  ELSE IF w <= Len(powerset(remaining(all, powerset(all)[o]))) THEN <<o, w>>
  ELSE settle(all, o + 1, 1)

\* where main stands once the outer loop has reached position t
after_loop(all, t) == IF t > Len(powerset(all)) THEN "normalize" ELSE "enumerate"

Init ==
  /\ people \in Populations
  /\ probabilities = zero_distributions(people)
  /\ pc = after_loop(DOMAIN people, 1)
  /\ ti = 1
  /\ oi = settle(DOMAIN people, 1, 1)[1]
  /\ wi = settle(DOMAIN people, 1, 1)[2]
  /\ hyp = NoHypothesis
  /\ p = RatZero
  /\ processed = {}
  /\ calls = 0
  /\ printed = FALSE
  /\ Idle

names == DOMAIN people

\* the candidate the outer loop stands at
candidate == powerset(names)[ti]

\* for have_trait in powerset(names): a candidate that fails the evidence is
\* passed over (continue), as is one the inner loops have no pass for
Skip ==
  /\ pc = "enumerate"
  /\ fails_evidence(people, names, candidate) \/ oi > Len(powerset(names))
  /\ ti' = ti + 1
  /\ oi' = settle(names, 1, 1)[1]
  /\ wi' = settle(names, 1, 1)[2]
  /\ pc' = after_loop(names, ti + 1)
  /\ UNCHANGED <<people, probabilities, hyp, p, processed, calls, printed>>
  /\ UNCHANGED <<ncalls, before>>
  /\ UNCHANGED tvars

\* one pass through the body of the innermost loop, and the step to the next
\* pass: p = joint_probability(...); update(probabilities, ..., p)
Accumulate ==
  /\ pc = "enumerate"
  /\ ~fails_evidence(people, names, candidate)
  /\ oi <= Len(powerset(names))
  /\ LET have_trait == candidate
         one_gene == powerset(names)[oi]
         two_genes == powerset(remaining(names, one_gene))[wi]
         q == joint_probability(people, one_gene, two_genes, have_trait)
         then == settle(names, oi, wi + 1)
         exhausted == then[1] > Len(powerset(names))
     IN  /\ p' = q
         /\ probabilities' = update(probabilities, one_gene, two_genes, have_trait, q)
         /\ hyp' = [one_gene |-> one_gene, two_genes |-> two_genes, have_trait |-> have_trait]
         /\ processed' = processed \cup {hyp'}
         /\ calls' = calls + 1
         /\ before' = probabilities
         /\ oi' = IF exhausted THEN settle(names, 1, 1)[1] ELSE then[1]
         /\ wi' = IF exhausted THEN settle(names, 1, 1)[2] ELSE then[2]
         /\ ti' = IF exhausted THEN ti + 1 ELSE ti
         /\ pc' = IF exhausted THEN after_loop(names, ti + 1) ELSE "enumerate"
  /\ UNCHANGED <<people, printed>>
  /\ UNCHANGED <<ncalls>>
  /\ UNCHANGED tvars

\* normalize(probabilities)
Normalize ==
  /\ pc = "normalize"
  /\ LET r == normalize(probabilities)
     IN  /\ probabilities' = r.probs
         /\ pc' = IF r.ok THEN "print" ELSE "failed"
  /\ ncalls' = ncalls + 1
  /\ before' = probabilities
  /\ UNCHANGED <<people, ti, oi, wi, hyp, p, processed, calls, printed>>
  /\ UNCHANGED tvars

\* the loop that prints the results
PrintResults ==
  /\ pc = "print"
  /\ printed' = TRUE
  /\ pc' = "done"
  /\ UNCHANGED <<people, probabilities, ti, oi, wi, hyp, p, processed, calls>>
  /\ UNCHANGED <<ncalls, before>>
  /\ UNCHANGED tvars

Next == Skip \/ Accumulate \/ Normalize \/ PrintResults

Spec == Init /\ [][Next]_vars

(***************************************************************************)
(* normalize on its own: main from the call of normalize on, started on    *)
(* any accumulated distributions (every update adds one p to one gene and  *)
(* one trait bucket of every person, so all distributions have one total), *)
(* and normalize applied once more to what it returned.                    *)
(***************************************************************************)
GeneTotals(total) ==
  {g \in [0 .. 2 -> 0 .. total] : g[0] + g[1] + g[2] = total}

TraitTotals(total) ==
  {t \in [BOOLEAN -> 0 .. total] : t[TRUE] + t[FALSE] = total}

Accumulated ==
  UNION {UNION {[1 .. n -> [gene : GeneTotals(total), trait : TraitTotals(total)]] :
                  total \in 0 .. MaxTotal} : n \in 0 .. MaxNormPeople}

AsRationals(acc) ==
  [person \in DOMAIN acc |->
     [gene |-> [i \in 0 .. 2 |-> Frac(acc[person].gene[i], 1)],
      trait |-> [t \in BOOLEAN |-> Frac(acc[person].trait[t], 1)]]]

InitNormalize ==
  /\ \E acc \in Accumulated : probabilities = AsRationals(acc)
  /\ people = << >>
  /\ pc = "normalize"
  /\ ti = 1 /\ oi = 1 /\ wi = 1
  /\ hyp = NoHypothesis
  /\ p = RatZero
  /\ processed = {}
  /\ calls = 0
  /\ printed = FALSE
  /\ Idle

\* a second call of normalize on the distributions the first one returned
NormalizeAgain ==
  /\ pc = "print"
  /\ ncalls < MaxNormalizeCalls
  /\ LET r == normalize(probabilities)
     IN  /\ probabilities' = r.probs
         /\ pc' = IF r.ok THEN "print" ELSE "failed"
  /\ ncalls' = ncalls + 1
  /\ before' = probabilities
  /\ UNCHANGED <<people, ti, oi, wi, hyp, p, processed, calls, printed>>
  /\ UNCHANGED tvars

NextNormalize == Normalize \/ NormalizeAgain \/ PrintResults

SpecNormalize == InitNormalize /\ [][NextNormalize]_vars

(***************************************************************************)
(* tictactoe.py.  A board is a tuple of three rows of three cells; the     *)
(* Python index i is the tuple index i + 1.                                *)
(***************************************************************************)
X == "X"

O == "O"

EMPTY == "EMPTY"

\* best_score starts at -inf or inf: any number beyond every utility
inf == 2

\* len(board), len(row)
Size == 3

initial_state ==
  <<<<EMPTY, EMPTY, EMPTY>>,
    <<EMPTY, EMPTY, EMPTY>>,
    <<EMPTY, EMPTY, EMPTY>>>>

Cells == (0 .. Size - 1) \X (0 .. Size - 1)

at(b, i, j) == b[i + 1][j + 1]

count(b, mark) == Cardinality({c \in Cells : at(b, c[1], c[2]) = mark})

player(b) == IF count(b, X) > count(b, O) THEN O ELSE X

actions(b) == {c \in Cells : at(b, c[1], c[2]) = EMPTY}

\* list indexing raises IndexError outside -len .. len - 1
in_range(i) == -Size <= i /\ i <= Size - 1

\* a negative index counts from the end
position(i) == IF i < 0 THEN i + Size ELSE i

\* what result returns or raises, and the list passed in as the call leaves it
result(b, action) ==
  IF ~in_range(action[1]) \/ ~in_range(action[2])
    THEN [kind |-> "IndexError", board |-> << >>, arg |-> b]
  ELSE IF at(b, position(action[1]), position(action[2])) # EMPTY
          \/ action[1] > 2 \/ action[2] > 2
    THEN [kind |-> "ValueError", board |-> << >>, arg |-> b]
  ELSE LET new_board == b
           q == player(new_board)
       IN  [kind |-> "board",
            board |-> [new_board EXCEPT ![position(action[1]) + 1][position(action[2]) + 1] = q],
            arg |-> b]

RECURSIVE winner_from(_, _)
winner_from(b, ind) ==
  IF ind = Size
    THEN (IF ((at(b, 0, 0) = at(b, 1, 1) /\ at(b, 1, 1) = at(b, 2, 2))
              \/ (at(b, 0, 2) = at(b, 1, 1) /\ at(b, 1, 1) = at(b, 2, 0)))
             /\ at(b, 1, 1) # EMPTY
            THEN at(b, 1, 1)
            ELSE "None")
  ELSE IF at(b, ind, 0) = at(b, ind, 1) /\ at(b, ind, 0) = at(b, ind, 2) /\ at(b, ind, 0) # EMPTY
    THEN at(b, ind, 0)
  ELSE IF at(b, 0, ind) = at(b, 1, ind) /\ at(b, 2, ind) = at(b, 0, ind) /\ at(b, 0, ind) # EMPTY
    THEN at(b, 0, ind)
  ELSE winner_from(b, ind + 1)

winner(b) == winner_from(b, 0)

terminal(b) ==
  IF \A c \in Cells : at(b, c[1], c[2]) # EMPTY THEN TRUE
  ELSE IF winner(b) # "None" THEN TRUE
  ELSE FALSE

utility(b) ==
  IF winner(b) = X THEN 1
  ELSE IF winner(b) = O THEN -1
  ELSE 0

Max(s) == CHOOSE x \in s : \A y \in s : y <= x

Min(s) == CHOOSE x \in s : \A y \in s : x <= y

RECURSIVE find_score(_)
find_score(b) ==
  IF terminal(b) THEN utility(b)
  ELSE LET scores == {find_score(result(b, m).board) : m \in actions(b)}
       IN  IF player(b) = X THEN Max(scores) ELSE Min(scores)

\* the cells, row by row
CellSeq ==
  <<<<0, 0>>, <<0, 1>>, <<0, 2>>, <<1, 0>>, <<1, 1>>, <<1, 2>>,
    <<2, 0>>, <<2, 1>>, <<2, 2>>>>

index(cell) == Size * cell[1] + cell[2] + 1

\* an order in which the set possible_moves may yield its elements: any move
\* first, the others after it
in_order(moves, first) ==
  <<first>> \o SelectSeq(CellSeq, LAMBDA c : c \in moves /\ c # first)

\* find_score(result(board, move)) for every legal move, by index(move); it is
\* a function of the board alone, so the loop of minimax reads it from here
RECURSIVE score_table(_, _)
score_table(b, k) ==
  IF k > Len(CellSeq) THEN << >>
  ELSE <<IF CellSeq[k] \in actions(b) THEN find_score(result(b, CellSeq[k]).board) ELSE inf>>
       \o score_table(b, k + 1)

\* both players take the higher score
improves_always_max(best_score, score, who) == best_score < score

\* the condition under which the loop of minimax takes a move
improves(best_score, score, who) ==
  (best_score < score /\ who = X) \/ (best_score > score /\ who = O)

RECURSIVE minimax_loop(_, _, _, _, _)
minimax_loop(b, moves, best_score, best_move, table) ==
  IF moves = << >> THEN best_move
  ELSE LET m == Head(moves)
           score == table[index(m)]
       IN  IF improves(best_score, score, player(b))
             THEN minimax_loop(b, Tail(moves), score, m, table)
             ELSE minimax_loop(b, Tail(moves), best_score, best_move, table)

\* minimax(board) when possible_moves yields `first` first; None is << >>
minimax(b, first, table) ==
  IF terminal(b) THEN << >>
  ELSE minimax_loop(b, in_order(actions(b), first),
                    IF player(b) = O THEN inf ELSE -inf, << >>, table)

InitGame ==
  /\ board = initial_state
  /\ res = [kind |-> "none"]
  /\ move = <<"unasked">>
  /\ scored = << >>
  /\ people = << >> /\ probabilities = << >> /\ pc = "game"
  /\ ti = 1 /\ oi = 1 /\ wi = 1 /\ hyp = NoHypothesis /\ p = RatZero
  /\ processed = {} /\ calls = 0 /\ printed = FALSE /\ ncalls = 0 /\ before = << >>

\* a player makes a legal move while the game is on
Play ==
  /\ ~terminal(board)
  /\ \E action \in actions(board) : board' = result(board, action).board
  /\ move' = <<"unasked">>
  /\ scored' = << >>
  /\ UNCHANGED res
  /\ UNCHANGED <<ncalls>>
  /\ UNCHANGED hvars

\* minimax is asked for a move on the board as it stands
AskMinimax ==
  /\ move = <<"unasked">>
  /\ scored' = IF terminal(board) THEN << >> ELSE score_table(board, 1)
  /\ \E first \in (IF terminal(board) THEN {<< >>} ELSE actions(board)) :
        move' = minimax(board, first, scored')
  /\ UNCHANGED <<board, res, ncalls>>
  /\ UNCHANGED hvars

NextGame == Play \/ AskMinimax

SpecGame == InitGame /\ [][NextGame]_vars

Indices == (-MaxIndex .. MaxIndex) \X (-MaxIndex .. MaxIndex)

\* result is called on the board as it stands, with any pair of indices
CallResult ==
  /\ res.kind = "none"
  /\ \E action \in Indices :
       LET r == result(board, action)
       IN  res' = [kind |-> r.kind, board |-> r.board, arg |-> r.arg,
                   action |-> action, before |-> board]
  /\ UNCHANGED <<board, move, scored, ncalls>>
  /\ UNCHANGED hvars

\* the caller takes the board result returned as the next one
Adopt ==
  /\ res.kind = "board"
  /\ ~terminal(board)
  /\ board' = res.board
  /\ res' = [kind |-> "none"]
  /\ UNCHANGED <<move, scored, ncalls>>
  /\ UNCHANGED hvars

\* the caller drops what result returned or raised
Discard ==
  /\ res.kind # "none"
  /\ res' = [kind |-> "none"]
  /\ UNCHANGED <<board, move, scored, ncalls>>
  /\ UNCHANGED hvars

NextResult == CallResult \/ Adopt \/ Discard

SpecResult == InitGame /\ [][NextResult]_vars

(***************************************************************************)
(* The properties.                                                         *)
(***************************************************************************)
RECURSIVE Pow(_, _)
Pow(b, e) == IF e = 0 THEN 1 ELSE b * Pow(b, e - 1)

Known(ppl) == {person \in DOMAIN ppl : ppl[person].trait # "None"}

\* the admissible hypotheses of a population, stated without the loops
Admissible(ppl) ==
  {h \in [one_gene : SUBSET DOMAIN ppl, two_genes : SUBSET DOMAIN ppl,
          have_trait : SUBSET DOMAIN ppl] :
     /\ h.one_gene \cap h.two_genes = {}
     /\ \A person \in Known(ppl) : ppl[person].trait = Observed(person \in h.have_trait)}

GeneCount(h, person) ==
  IF person \in h.two_genes THEN 2 ELSE IF person \in h.one_gene THEN 1 ELSE 0

\* the hypothesis with number c: person i has gene count (c \div 6^(i-1)) % 3
\* and has the trait iff (c \div 6^(i-1)) % 6 >= 3
Numbered(ppl, c) ==
  LET digit(person) == (c \div Pow(6, person - 1)) % 6
  IN  [one_gene |-> {person \in DOMAIN ppl : digit(person) % 3 = 1},
       two_genes |-> {person \in DOMAIN ppl : digit(person) % 3 = 2},
       have_trait |-> {person \in DOMAIN ppl : digit(person) >= 3}]

\* what one hypothesis contributes: its joint probability in the bucket of
\* its gene count and in the bucket of its trait, for every person
Contribution(ppl, h) ==
  LET q == joint_probability(ppl, h.one_gene, h.two_genes, h.have_trait)
  IN  [person \in DOMAIN ppl |->
         [gene |-> [g \in 0 .. 2 |-> IF g = GeneCount(h, person) THEN q ELSE RatZero],
          trait |-> [t \in BOOLEAN |-> IF t = (person \in h.have_trait) THEN q ELSE RatZero]]]

\* bucket by bucket, the sums of the contributions of the admissible
\* hypotheses numbered lo .. hi
RECURSIVE SumJoint(_, _, _)
SumJoint(ppl, lo, hi) ==
  IF lo = hi
    THEN (IF Numbered(ppl, lo) \in Admissible(ppl)
            THEN Contribution(ppl, Numbered(ppl, lo))
            ELSE zero_distributions(ppl))
    ELSE LET mid == (lo + hi) \div 2
             left == SumJoint(ppl, lo, mid)
             right == SumJoint(ppl, mid + 1, hi)
         IN  [person \in DOMAIN ppl |->
                [gene |-> [g \in 0 .. 2 |->
                             RatAdd(left[person].gene[g], right[person].gene[g])],
                 trait |-> [t \in BOOLEAN |->
                              RatAdd(left[person].trait[t], right[person].trait[t])]]]

Enumerated == pc \in {"normalize", "print", "done", "failed"}

Normalized == pc \in {"print", "done"}

AllUnknown(ppl) == \A person \in DOMAIN ppl : ppl[person].trait = "None"

IsFounder(ppl, person) == ppl[person].mother = NoParent

\* C1: when the enumeration of main ends, the hypotheses passed to
\* joint_probability and update are exactly the admissible ones, each passed
\* once, 2^(n-k) * 3^n of them for n persons of whom k have a known trait; and
\* at no time has a hypothesis been passed twice.
C1_Enumeration ==
  /\ calls = Cardinality(processed)
  /\ calls > 0 => hyp \in processed /\ hyp \in Admissible(people)
  /\ Enumerated =>
       /\ processed = Admissible(people)
       /\ calls = Pow(2, Cardinality(names) - Cardinality(Known(people)))
                    * Pow(3, Cardinality(names))

C1_Witness ==
  /\ pc = "normalize"
  /\ Cardinality(names) = 3
  /\ Cardinality(Known(people)) = 1
  /\ calls = 108

\* C2: a person whose trait is observed present is in have_trait of every
\* hypothesis passed to update, so the False bucket of that person is never
\* added to; after normalize the trait posterior is 1 for True and 0 for False.
C2_KnownPositive ==
  \A person \in names :
     people[person].trait = "True" =>
       /\ \A h \in processed : person \in h.have_trait
       /\ RatIsZero(probabilities[person].trait[FALSE])
       /\ Normalized =>
            /\ RatEq(probabilities[person].trait[TRUE], RatOne)
            /\ RatEq(probabilities[person].trait[FALSE], RatZero)

C2_Witness ==
  /\ pc = "print"
  /\ \E person \in names : people[person].trait = "True"
  /\ \E person \in names : people[person].trait = "None"
  /\ \E person \in names : ~IsFounder(people, person)

\* the last call of update added p to one gene and one trait bucket of the
\* person, those of the hypothesis, and left the other buckets as they were
AddedToOneBucketEach(person) ==
  /\ \A g \in 0 .. 2 :
       probabilities[person].gene[g] =
         IF g = GeneCount(hyp, person)
           THEN RatAdd(before[person].gene[g], p)
           ELSE before[person].gene[g]
  /\ \A t \in BOOLEAN :
       probabilities[person].trait[t] =
         IF t = (person \in hyp.have_trait)
           THEN RatAdd(before[person].trait[t], p)
           ELSE before[person].trait[t]

\* the buckets hold the sums of the joint probabilities of the admissible
\* hypotheses, by gene count and by trait
HoldsTheSums ==
  LET sums == SumJoint(people, 0, Pow(6, Cardinality(names)) - 1)
  IN  \A person \in names :
         /\ \A g \in 0 .. 2 : RatEq(probabilities[person].gene[g], sums[person].gene[g])
         /\ \A t \in BOOLEAN : RatEq(probabilities[person].trait[t], sums[person].trait[t])

\* C3: a call of update adds p to the gene bucket of the hypothesized gene count
\* and to the trait bucket of the hypothesized trait of every person, and to no
\* other bucket; when the enumeration ends, every bucket holds the sum of
\* joint_probability over the admissible hypotheses with that value.
C3_Accumulation ==
  /\ (calls > 0 /\ ncalls = 0) =>
       /\ p = joint_probability(people, hyp.one_gene, hyp.two_genes, hyp.have_trait)
       /\ \A person \in names : AddedToOneBucketEach(person)
  /\ pc = "normalize" => HoldsTheSums

C3_Witness ==
  /\ pc = "normalize"
  /\ Cardinality(names) = 3
  /\ \E person \in names : ~IsFounder(people, person)
  /\ \E person \in names : people[person].trait = "False"
  /\ HoldsTheSums

\* C4: normalize, run on the distributions main accumulated, returns, and
\* afterwards the three gene buckets of every person sum to 1 and so do the two
\* trait buckets, and every bucket is its old value divided by the sum of its
\* own distribution, so the proportions are kept.
C4_Normalized ==
  (calls > 0 /\ ncalls > 0) =>
     /\ Normalized
     /\ \A person \in names :
          LET old == before[person]
              new == probabilities[person]
              gsum == RatAdd(RatAdd(old.gene[0], old.gene[1]), old.gene[2])
              tsum == RatAdd(old.trait[TRUE], old.trait[FALSE])
          IN  /\ RatEq(RatAdd(RatAdd(new.gene[0], new.gene[1]), new.gene[2]), RatOne)
              /\ RatEq(RatAdd(new.trait[TRUE], new.trait[FALSE]), RatOne)
              /\ \A g \in 0 .. 2 : RatEq(RatMul(new.gene[g], gsum), old.gene[g])
              /\ \A t \in BOOLEAN : RatEq(RatMul(new.trait[t], tsum), old.trait[t])
              /\ \A g, k \in 0 .. 2 :
                   RatEq(RatMul(new.gene[g], old.gene[k]), RatMul(new.gene[k], old.gene[g]))
              /\ RatEq(RatMul(new.trait[TRUE], old.trait[FALSE]),
                       RatMul(new.trait[FALSE], old.trait[TRUE]))

C4_Witness ==
  /\ pc = "print"
  /\ Cardinality(names) = 3
  /\ \E person \in names : ~IsFounder(people, person)
  /\ \E person \in names :
       /\ ~RatIsZero(probabilities[person].gene[2])
       /\ RatEq(RatAdd(RatAdd(probabilities[person].gene[0], probabilities[person].gene[1]),
                       probabilities[person].gene[2]), RatOne)

\* one child, whose mother and father are the two founders, no trait known
TwoGenerations(ppl) ==
  /\ DOMAIN ppl = 1 .. 3
  /\ AllUnknown(ppl)
  /\ \E child \in 1 .. 3 :
       /\ ~IsFounder(ppl, child)
       /\ {ppl[child].mother, ppl[child].father} = (1 .. 3) \ {child}
       /\ \A other \in (1 .. 3) \ {child} : IsFounder(ppl, other)

\* the hypothesis last passed to joint_probability gives nobody a gene
NobodyHasTheGene == calls > 0 /\ hyp.one_gene = {} /\ hyp.two_genes = {}

\* 0.96 * 0.96 * (1 - mu) * (1 - mu)
GenesOnly ==
  RatMul(RatMul(PROBS.gene[0], PROBS.gene[0]),
         RatMul(RatCompl(PROBS.mutation), RatCompl(PROBS.mutation)))

\* C5 as stated: in the two-generation population joint_probability returns
\* 0.96 * 0.96 * (1 - mu) * (1 - mu) for the hypothesis of no genes, whichever
\* have_trait accompanies it.
C5_AsStated == (TwoGenerations(people) /\ NobodyHasTheGene) => RatEq(p, GenesOnly)

RECURSIVE TraitFactors(_, _)
TraitFactors(persons, have_trait) ==
  IF persons = {} THEN RatOne
  ELSE LET person == CHOOSE x \in persons : TRUE
       IN  RatMul(PROBS.trait[0][(person \in have_trait)],
                  TraitFactors(persons \ {person}, have_trait))

\* C5, amended: in the two-generation population joint_probability returns,
\* for the hypothesis of no genes, 0.96 * 0.96 * (1 - mu) * (1 - mu) times the
\* trait factor PROBS["trait"][0][t] of each of the three persons, t being
\* whether have_trait holds the person.
C5_WithTraitFactors ==
  (TwoGenerations(people) /\ NobodyHasTheGene) =>
     RatEq(p, RatMul(GenesOnly, TraitFactors(names, hyp.have_trait)))

C5_Witness ==
  /\ TwoGenerations(people)
  /\ NobodyHasTheGene
  /\ Cardinality(hyp.have_trait) = 1
  /\ pc = "enumerate"

\* sum over n of PROBS["gene"][n] * PROBS["trait"][n][True]
PriorTrait ==
  RatAdd(RatAdd(RatMul(PROBS.gene[0], PROBS.trait[0][TRUE]),
                RatMul(PROBS.gene[1], PROBS.trait[1][TRUE])),
         RatMul(PROBS.gene[2], PROBS.trait[2][TRUE]))

\* sum over n of the gene posterior of a person times PROBS["trait"][n][True]
PosteriorTrait(person) ==
  RatAdd(RatAdd(RatMul(probabilities[person].gene[0], PROBS.trait[0][TRUE]),
                RatMul(probabilities[person].gene[1], PROBS.trait[1][TRUE])),
         RatMul(probabilities[person].gene[2], PROBS.trait[2][TRUE]))

\* C6 as stated: with no trait observed, the trait posterior of every person,
\* founder or child, is the emission probability under the gene prior.
C6_AsStated ==
  (Normalized /\ AllUnknown(people)) =>
     \A person \in names :
        /\ RatEq(probabilities[person].trait[TRUE], PriorTrait)
        /\ RatEq(probabilities[person].trait[FALSE], RatCompl(PriorTrait))

\* C6, amended: with no trait observed, the trait posterior of every founder
\* is the emission probability under the gene prior, and that of every person,
\* founder or child, is the emission probability under the person's own gene
\* posterior; trait[False] is the complement.
C6_FoundersAndOwnPosterior ==
  (Normalized /\ AllUnknown(people)) =>
     \A person \in names :
        /\ IsFounder(people, person) =>
             /\ RatEq(probabilities[person].trait[TRUE], PriorTrait)
             /\ RatEq(probabilities[person].trait[FALSE], RatCompl(PriorTrait))
        /\ RatEq(probabilities[person].trait[TRUE], PosteriorTrait(person))
        /\ RatEq(probabilities[person].trait[FALSE], RatCompl(PosteriorTrait(person)))

C6_Witness ==
  /\ pc = "print"
  /\ AllUnknown(people)
  /\ \E person \in names : ~IsFounder(people, person)
  /\ \E person \in names :
       IsFounder(people, person) /\ RatEq(probabilities[person].trait[TRUE], PriorTrait)

SameDistributions(a, b) ==
  /\ DOMAIN a = DOMAIN b
  /\ \A person \in DOMAIN a :
       /\ \A g \in 0 .. 2 : RatEq(a[person].gene[g], b[person].gene[g])
       /\ \A t \in BOOLEAN : RatEq(a[person].trait[t], b[person].trait[t])

AllZero(probs) ==
  \A person \in DOMAIN probs :
     /\ \A g \in 0 .. 2 : RatIsZero(probs[person].gene[g])
     /\ \A t \in BOOLEAN : RatIsZero(probs[person].trait[t])

\* C8: when normalize has been called on the distributions of a non-empty
\* population in which every bucket is zero, it has failed with a division by
\* zero: it has not returned, no bucket has been changed, and main has printed
\* nothing and never will.
C8_ZeroDivision ==
  (ncalls > 0 /\ DOMAIN probabilities # {} /\ AllZero(probabilities)) =>
     /\ pc = "failed"
     /\ ~printed
     /\ probabilities = zero_distributions(probabilities)
     /\ ~ENABLED PrintResults

C8_Witness ==
  /\ pc = "failed"
  /\ ncalls = 1
  /\ Cardinality(DOMAIN probabilities) = 2
  /\ AllZero(probabilities)

Asked == move # <<"unasked">>

\* the scores of the legal moves, as find_score gave them when minimax was asked
MoveScores == {scored[index(m)] : m \in actions(board)}

\* C9: on every board reached by legal alternating moves, minimax returns
\* None exactly when the board is terminal, and otherwise a legal move whose
\* score under find_score is the highest of all legal moves when X is to move
\* and the lowest when O is to move.
C9_Minimax ==
  Asked =>
    /\ (move = << >>) <=> terminal(board)
    /\ ~terminal(board) =>
         /\ move \in actions(board)
         /\ scored[index(move)] =
              (IF player(board) = X THEN Max(MoveScores) ELSE Min(MoveScores))

C9_Witness ==
  /\ Asked
  /\ ~terminal(board)
  /\ player(board) = O
  /\ move \in actions(board)
  /\ scored[index(move)] = -1
  /\ \E m \in actions(board) : scored[index(m)] = 1

\* C10: a call of result with an action that is no legal move on the board
\* (the cell is taken, or an index is above 2 or negative) ends in ValueError;
\* a call with a legal move returns a board that differs from the one passed in
\* at that cell only, where it holds the player to move; either way the board
\* passed in is as it was.
C10_Result ==
  res.kind # "none" =>
    /\ res.arg = res.before
    /\ res.action \notin actions(res.before) => res.kind = "ValueError"
    /\ res.action \in actions(res.before) =>
         /\ res.kind = "board"
         /\ \A c \in Cells :
              at(res.board, c[1], c[2]) =
                IF c = res.action THEN player(res.before) ELSE at(res.before, c[1], c[2])
====
